---------------------------- MODULE Spec2Model ----------------------------
(***************************************************************************)
(* ChatDBT with Ollama.                                                    *)
(*                                                                         *)
(* Spec       the chat component (frontend/components/ChatInterface.tsx),  *)
(*            the proxy route (frontend/app/api/chat/route.ts) and the     *)
(*            backend seen at its HTTP boundary.                           *)
(* SpecIndex  the Index Manager of the backend (refresh, query, persist),  *)
(*            as spec.md sections 3 to 5 design it.                        *)
(*                                                                         *)
(* Timestamps (new Date()) and scrolling are left out: no handler reads    *)
(* them back.                                                              *)
(***************************************************************************)
EXTENDS Integers, Sequences, FiniteSets, TLC

VARIABLES
    messages,      \* useState<Message[]>([])
    input,         \* useState('')
    isLoading,     \* useState(false)
    isConnected,   \* useState(false)
    health,        \* the result of checkConnection's fetch('/api/health')
    pending,       \* HTTP exchanges in flight, in the order they were started
    started,       \* number of exchanges started so far
    refreshLock,   \* backend: whether a refresh holds the Index Manager
    arena,         \* Index Manager: the index instances that exist
    published,     \* Index Manager: the instance readers observe
    persisted,     \* Index Manager: the index in durable storage
    project,       \* the dbt project directory: path -> number of chunks
    dirty,         \* whether the project changed since it was last scanned
    refresh,       \* Index Manager: the refresh or build that is running
    last,          \* how the last refresh or build ended
    query,         \* a retrieval in progress
    embedCalls,    \* embedding-service calls of the current or last refresh
    runs           \* number of refreshes and builds started so far

uiVars == <<messages, input, isLoading, isConnected, health, pending, started,
            refreshLock>>
indexVars == <<arena, published, persisted, project, dirty, refresh, last,
               query, embedCalls, runs>>
vars == <<uiVars, indexVars>>

----------------------------------------------------------------------------
(* Bounds of the model.                                                    *)

\* requests the component starts in one behaviour
MaxRequests == 2

----------------------------------------------------------------------------
(* JavaScript values.  A string is the sequence of its fragments, so that  *)
(* a template literal is a concatenation and trim() has something to       *)
(* strip.  An object is a function on Fields; a field that is absent is    *)
(* undefined, which is also how JSON.stringify treats an undefined field.  *)

Undef == [t |-> "undefined", v |-> <<>>]
Str(s) == [t |-> "string", v |-> s]
Num(n) == [t |-> "number", v |-> n]
Arr(a) == [t |-> "array", v |-> a]

Falsy(x) ==
    \/ x.t = "undefined"
    \/ x.t = "string" /\ x.v = <<>>
    \/ x.t = "number" /\ x.v = 0

\* a || b
JsOr(a, b) == IF Falsy(a) THEN b ELSE a

Fields == {"message", "history", "response", "sources", "error", "status",
           "detail", "details"}

EmptyObj == [k \in Fields |-> Undef]

Obj(f) == [k \in Fields |-> IF k \in DOMAIN f THEN f[k] ELSE Undef]

IsSpace(c) == c \in {" ", "\n"}

RECURSIVE TrimStart(_)
TrimStart(s) ==
    IF s # <<>> /\ IsSpace(Head(s)) THEN TrimStart(Tail(s)) ELSE s

RECURSIVE TrimEnd(_)
TrimEnd(s) ==
    IF s # <<>> /\ IsSpace(s[Len(s)])
    THEN TrimEnd(SubSeq(s, 1, Len(s) - 1))
    ELSE s

\* String.prototype.trim
Trim(s) == TrimEnd(TrimStart(s))

\* String.prototype.includes, for a needle that is one fragment
Includes(s, frag) == \E i \in 1..Len(s) : s[i] = frag

\* `${n}` for an HTTP status
NumStr(n) ==
    CASE n = 200 -> "200"
      [] n = 400 -> "400"
      [] n = 404 -> "404"
      [] n = 409 -> "409"
      [] n = 500 -> "500"
      [] n = 503 -> "503"
      [] OTHER -> "NaN"

----------------------------------------------------------------------------
(* fetch().  A fetch either rejects (st = "failed": the peer cannot be     *)
(* reached) or resolves with a response, whose body json() may fail to     *)
(* parse (json = FALSE).                                                   *)

NoResult == [st |-> "none", status |-> 0, json |-> FALSE, body |-> EmptyObj]
NetFail == [st |-> "failed", status |-> 0, json |-> FALSE, body |-> EmptyObj]
Response(status, body) ==
    [st |-> "response", status |-> status, json |-> TRUE, body |-> body]
NotJson(status) ==
    [st |-> "response", status |-> status, json |-> FALSE, body |-> EmptyObj]

\* Response.ok
Ok(r) == r.status >= 200 /\ r.status <= 299

\* what a rejected fetch or a failed json() throws
FetchFailed == [name |-> "TypeError", message |-> <<"fetch", " failed">>]
JsonSyntaxError ==
    [name |-> "SyntaxError", message |-> <<"Unexpected token in JSON">>]


----------------------------------------------------------------------------
(* The backend at its HTTP boundary (POST /chat), after spec.md 4.7:       *)
(* sources is the ordered, deduplicated list of source_path values of the  *)
(* retrieved chunks, in first-seen order.                                  *)

RECURSIVE Dedup(_, _)
Dedup(paths, seen) ==
    IF paths = <<>> THEN <<>>
    ELSE IF Head(paths) \in seen THEN Dedup(Tail(paths), seen)
    ELSE <<Head(paths)>> \o Dedup(Tail(paths), seen \cup {Head(paths)})

\* Answer Composer: the sources of an answer
SourcesOf(retrieved) == Dedup(retrieved, {})

\* source paths of the chunks a query retrieved, by descending score
Retrieved ==
    { <<>>,
      <<"models/customers.sql", "models/orders.sql", "models/customers.sql">> }

ErrorStatuses == {404, 500}

\* what fetch(`${BACKEND_URL}/chat`) can settle with
ChatOutcomes ==
    {NetFail, NotJson(200), NotJson(500)}
    \cup { Response(s, Obj([detail |-> d])) :
             s \in ErrorStatuses, d \in {Undef, Str(<<"Ollama is not running">>)} }
    \cup { Response(200, Obj([response |-> Str(<<"answer">>), sources |-> src])) :
             src \in {Undef} \cup { Arr(SourcesOf(r)) : r \in Retrieved } }

----------------------------------------------------------------------------
(* frontend/app/api/chat/route.ts                                          *)

BACKEND_URL == "http://localhost:8000"

\* RouteCatch without the test for a failed fetch: every error is a 500
RouteCatchNoFetchTest(error) ==
    Response(500, Obj([
      error |-> Str(<<"Internal server error">>),
      details |-> Str(error.message)]))

\* catch (error), lines 44-65
RouteCatch(error) ==
    IF error.name = "TypeError" /\ Includes(error.message, "fetch")
    THEN Response(503, Obj([
           error |-> Str(<<"Cannot connect to backend server. Please ensure the backend is running.">>),
           details |-> Str(<<"Check that the backend server is started and accessible at ",
                             BACKEND_URL>>)]))
    ELSE Response(500, Obj([
           error |-> Str(<<"Internal server error">>),
           details |-> Str(error.message)]))

\* InvalidMessage without the typeof test
InvalidMessageFalsyOnly(body) == Falsy(body["message"])

\* if (!body.message || typeof body.message !== 'string'), line 10
InvalidMessage(body) ==
    Falsy(body["message"]) \/ body["message"].t # "string"

\* body of the request forwarded to the backend, line 23
ForwardBody(body) == Obj([message |-> body["message"]])

\* PostReply without the test of backendResponse.ok
PostReplyUnchecked(outcome) ==
    IF outcome.st = "failed" THEN RouteCatch(FetchFailed)
    ELSE IF ~outcome.json THEN RouteCatch(JsonSyntaxError)
    ELSE LET data == outcome.body
         IN  Response(200, Obj([
               response |-> data["response"],
               sources |-> JsOr(data["sources"], Arr(<<>>))]))

\* lines 26-42 and the catch: the route's response, given how the fetch of
\* the backend settled
PostReply(outcome) ==
    IF outcome.st = "failed" THEN RouteCatch(FetchFailed)
    ELSE IF ~Ok(outcome) THEN
        LET errorData == IF outcome.json THEN outcome.body ELSE EmptyObj
        IN  Response(outcome.status, Obj([
              error |-> JsOr(errorData["detail"],
                             Str(<<"Backend error: ", NumStr(outcome.status)>>)),
              status |-> Num(outcome.status)]))
    ELSE IF ~outcome.json THEN RouteCatch(JsonSyntaxError)
    ELSE LET data == outcome.body
         IN  Response(200, Obj([
               response |-> data["response"],
               sources |-> JsOr(data["sources"], Arr(<<>>))]))

----------------------------------------------------------------------------
(* HTTP exchanges in flight.                                               *)

\* a request body as the route's request.json() finds it
JsonBody(body) == [json |-> TRUE, body |-> body]
MalformedBody == [json |-> FALSE, body |-> EmptyObj]

Exchange(kind, origin, stage, req) ==
    [kind |-> kind, origin |-> origin, stage |-> stage, req |-> req,
     fwd |-> EmptyObj, outcome |-> NoResult, resp |-> NoResult]

RemoveAt(s, i) == SubSeq(s, 1, i - 1) \o SubSeq(s, i + 1, Len(s))

\* POST, lines 6-24: parse, validate, forward
RouteReceive(i) ==
    /\ pending[i].kind = "chat" /\ pending[i].stage = "route"
    /\ LET req == pending[i].req
       IN  pending' = [pending EXCEPT ![i] =
             IF ~req.json
             THEN [@ EXCEPT !.stage = "response", !.resp = RouteCatch(JsonSyntaxError)]
             ELSE IF InvalidMessage(req.body)
             THEN [@ EXCEPT !.stage = "response",
                            !.resp = Response(400, Obj([error |->
                                Str(<<"Message is required and must be a string">>)]))]
             ELSE [@ EXCEPT !.stage = "backend", !.fwd = ForwardBody(req.body)]]
    /\ UNCHANGED <<messages, input, isLoading, isConnected, health, started,
                   refreshLock, indexVars>>

\* POST, lines 26-65: the fetch of the backend settles and the route answers
RouteReply(i, outcome) ==
    /\ pending[i].kind = "chat" /\ pending[i].stage = "backend"
    /\ pending' = [pending EXCEPT ![i] =
          [@ EXCEPT !.stage = "response", !.outcome = outcome,
                    !.resp = PostReply(outcome)]]
    /\ UNCHANGED <<messages, input, isLoading, isConnected, health, started,
                   refreshLock, indexVars>>


----------------------------------------------------------------------------
(* The backend's refresh endpoint (POST /refresh-index), at its boundary.  *)
(* spec.md 4.5: at most one refresh runs at a time; one requested while    *)
(* another runs is rejected with RefreshInProgressError.                   *)

RefreshOutcomes ==
    { Response(200, Obj([message |-> Str(<<"Index refreshed successfully">>)])),
      Response(500, Obj([detail |-> Str(<<"ExternalServiceError">>)])) }

BackendRefreshStart(i) ==
    /\ pending[i].kind = "refresh" /\ pending[i].stage = "backend"
    /\ ~refreshLock
    /\ refreshLock' = TRUE
    /\ pending' = [pending EXCEPT ![i].stage = "running"]
    /\ UNCHANGED <<messages, input, isLoading, isConnected, health, started,
                   indexVars>>

BackendRefreshReject(i) ==
    /\ pending[i].kind = "refresh" /\ pending[i].stage = "backend"
    /\ refreshLock
    /\ pending' = [pending EXCEPT ![i] =
          [@ EXCEPT !.stage = "response",
                    !.resp = Response(409, Obj([detail |->
                                Str(<<"RefreshInProgressError">>)]))]]
    /\ UNCHANGED <<messages, input, isLoading, isConnected, health, started,
                   refreshLock, indexVars>>

BackendRefreshFinish(i, outcome) ==
    /\ pending[i].kind = "refresh" /\ pending[i].stage = "running"
    /\ refreshLock' = FALSE
    /\ pending' = [pending EXCEPT ![i] =
          [@ EXCEPT !.stage = "response", !.resp = outcome]]
    /\ UNCHANGED <<messages, input, isLoading, isConnected, health, started,
                   indexVars>>

----------------------------------------------------------------------------
(* frontend/components/ChatInterface.tsx                                   *)

\* what the user can have in the textarea
Inputs == { <<>>, <<" ">>, <<" ", "Describe the customer table", "\n">> }

\* what the browser's fetch throws when it rejects
BrowserFetchFailed == [name |-> "TypeError", message |-> <<"Failed to fetch">>]

Message(role, content, sources) ==
    [role |-> role, content |-> content, sources |-> sources]

\* `${x}` for a JSON value
Text(x) == IF x.t = "string" THEN x.v ELSE <<"undefined">>

\* lines 91-95
ChatErrorMessage(error) ==
    Message("assistant",
            Str(<<"Sorry, I encountered an error: ">> \o error.message
                \o <<". Please make sure Ollama is running and the backend server is started.">>),
            Undef)

\* ChatReply reading a field the route does not send instead of data.sources
ChatReplyNoSources(r) ==
    IF r.st = "failed" THEN ChatErrorMessage(BrowserFetchFailed)
    ELSE IF ~Ok(r) THEN
        LET errorData == IF r.json THEN r.body ELSE EmptyObj
        IN  ChatErrorMessage([name |-> "Error", message |->
                Text(JsOr(errorData["detail"], Str(<<"HTTP ", NumStr(r.status)>>)))])
    ELSE IF ~r.json THEN ChatErrorMessage(JsonSyntaxError)
    ELSE Message("assistant", r.body["response"], JsOr(Undef, Arr(<<>>)))

\* lines 75-96: the message sendMessage appends once its fetch has settled
ChatReply(r) ==
    IF r.st = "failed" THEN ChatErrorMessage(BrowserFetchFailed)
    ELSE IF ~Ok(r) THEN
        LET errorData == IF r.json THEN r.body ELSE EmptyObj
        IN  ChatErrorMessage([name |-> "Error", message |->
                Text(JsOr(errorData["detail"], Str(<<"HTTP ", NumStr(r.status)>>)))])
    ELSE IF ~r.json THEN ChatErrorMessage(JsonSyntaxError)
    ELSE LET data == r.body
         IN  Message("assistant", data["response"],
                     JsOr(data["sources"], Arr(<<>>)))

\* lines 132-136
RefreshErrorMessage(error) ==
    Message("assistant",
            Str(<<"(cross) Error refreshing index: ">> \o error.message), Undef)

\* lines 120-137: the message refreshIndex appends once its fetch has settled
RefreshReply(r) ==
    IF r.st = "failed" THEN RefreshErrorMessage(BrowserFetchFailed)
    ELSE IF Ok(r) THEN
        IF ~r.json THEN RefreshErrorMessage(JsonSyntaxError)
        ELSE Message("assistant",
                     Str(<<"(check) ">> \o Text(r.body["message"])), Undef)
    ELSE RefreshErrorMessage([name |-> "Error",
                              message |-> <<"Failed to refresh index">>])

\* what fetch('/api/health') can settle with
HealthOutcomes ==
    { NetFail, NotJson(200),
      Response(200, Obj([status |-> Str(<<"healthy">>)])),
      Response(200, Obj([status |-> Str(<<"unhealthy">>)])),
      Response(503, Obj([status |-> Str(<<"healthy">>)])) }

\* checkConnection taking any ok answer for a healthy backend
checkConnectionAnyOk(r) ==
    IF r.st = "failed" THEN FALSE
    ELSE IF Ok(r) THEN r.json
    ELSE isConnected

\* lines 38-48, once the fetch started on mount has settled
checkConnection(r) ==
    IF r.st = "failed" THEN FALSE
    ELSE IF Ok(r) THEN
        IF ~r.json THEN FALSE
        ELSE r.body["status"] = Str(<<"healthy">>)
    ELSE isConnected

HealthSettle(r) ==
    /\ health = NoResult
    /\ health' = r
    /\ isConnected' = checkConnection(r)
    /\ UNCHANGED <<messages, input, isLoading, pending, started, refreshLock,
                   indexVars>>

\* a textarea that is disabled only while loading
TextareaDisabledOnlyLoading == isLoading

\* textarea: disabled={isLoading || !isConnected}, line 283
TextareaDisabled == isLoading \/ ~isConnected

\* Send button: disabled={isLoading || !input.trim() || !isConnected}, line 297
SendDisabled == isLoading \/ Trim(input) = <<>> \/ ~isConnected

\* a Refresh button that is never disabled
RefreshNeverDisabled == FALSE

\* Refresh button: disabled={isLoading}, line 166
RefreshDisabled == isLoading

\* onChange={(e) => setInput(e.target.value)}, line 278
Type(text) ==
    /\ ~TextareaDisabled
    /\ text # input
    /\ input' = text
    /\ UNCHANGED <<messages, isLoading, isConnected, health, pending, started,
                   refreshLock, indexVars>>

\* if (!input.trim() || isLoading) return, line 51
SendGuard == Trim(input) = <<>> \/ isLoading

\* body of the request sendMessage makes, line 72
ChatBody == Obj([message |-> Str(Trim(input))])

\* lines 50-73: up to the fetch
sendMessage ==
    IF SendGuard
    THEN UNCHANGED vars
    ELSE /\ messages' = Append(messages, Message("user", Str(Trim(input)), Undef))
         /\ input' = <<>>
         /\ isLoading' = TRUE
         /\ pending' = Append(pending,
                Exchange("chat", "ui", "route", JsonBody(ChatBody)))
         /\ started' = started + 1
         /\ UNCHANGED <<isConnected, health, refreshLock, indexVars>>

SendClick ==
    /\ ~SendDisabled
    /\ started < MaxRequests
    /\ sendMessage

\* handleKeyPress, lines 102-107: Enter without Shift in the textarea
handleKeyPress ==
    /\ ~TextareaDisabled
    /\ started < MaxRequests
    /\ sendMessage

\* what the fetches of lines 66 and 116 resolve with when the server or a
\* proxy before it answers in place of the handler: a page that is not JSON
ErrorPages == {NotJson(200), NotJson(502)}

PageReply(i, page) ==
    /\ pending[i].origin = "ui"
    /\ pending[i].stage = (IF pending[i].kind = "chat" THEN "route" ELSE "backend")
    /\ pending' = [pending EXCEPT ![i] =
          [@ EXCEPT !.stage = "page", !.resp = page]]
    /\ UNCHANGED <<messages, input, isLoading, isConnected, health, started,
                   refreshLock, indexVars>>

\* ChatSettle with setMessages([assistantMessage]) in place of the updates
\* of lines 88 and 95
ChatSettleReplaces(i, r) ==
    /\ messages' = <<ChatReply(r)>>
    /\ isLoading' = FALSE
    /\ pending' = RemoveAt(pending, i)
    /\ UNCHANGED <<input, isConnected, health, started, refreshLock, indexVars>>

\* ChatSettle without the finally block of lines 97-99
ChatSettleNoFinally(i, r) ==
    /\ messages' = Append(messages, ChatReply(r))
    /\ pending' = RemoveAt(pending, i)
    /\ UNCHANGED <<input, isLoading, isConnected, health, started, refreshLock,
                   indexVars>>

\* lines 75-99: the fetch of sendMessage has settled with r
ChatSettle(i, r) ==
    /\ messages' = Append(messages, ChatReply(r))
    /\ isLoading' = FALSE
    /\ pending' = RemoveAt(pending, i)
    /\ UNCHANGED <<input, isConnected, health, started, refreshLock, indexVars>>

ChatResponse(i) ==
    /\ pending[i].kind = "chat" /\ pending[i].origin = "ui"
    /\ pending[i].stage \in {"response", "page"}
    /\ ChatSettle(i, pending[i].resp)

\* the frontend server cannot be reached
ChatFetchRejects(i) ==
    /\ pending[i].kind = "chat" /\ pending[i].origin = "ui"
    /\ pending[i].stage = "route"
    /\ ChatSettle(i, NetFail)

\* a clearChat that also gives up the request the component has outstanding
clearChatAborts ==
    /\ messages' = <<>>
    /\ isLoading' = FALSE
    /\ pending' = SelectSeq(pending, LAMBDA x : x.origin # "ui")
    /\ UNCHANGED <<input, isConnected, health, started, refreshLock, indexVars>>

\* clearChat, lines 109-111
clearChat ==
    /\ messages' = <<>>
    /\ UNCHANGED <<input, isLoading, isConnected, health, pending, started,
                   refreshLock, indexVars>>

\* refreshIndex, lines 113-118: up to the fetch
refreshIndex ==
    /\ isLoading' = TRUE
    /\ pending' = Append(pending,
           Exchange("refresh", "ui", "backend", JsonBody(EmptyObj)))
    /\ started' = started + 1
    /\ UNCHANGED <<messages, input, isConnected, health, refreshLock, indexVars>>

RefreshClick ==
    /\ ~RefreshDisabled
    /\ started < MaxRequests
    /\ refreshIndex

\* RefreshSettle without the finally block of lines 138-140
RefreshSettleNoFinally(i, r) ==
    /\ messages' = Append(messages, RefreshReply(r))
    /\ pending' = RemoveAt(pending, i)
    /\ UNCHANGED <<input, isLoading, isConnected, health, started, refreshLock,
                   indexVars>>

\* lines 120-140: the fetch of refreshIndex has settled with r
RefreshSettle(i, r) ==
    /\ messages' = Append(messages, RefreshReply(r))
    /\ isLoading' = FALSE
    /\ pending' = RemoveAt(pending, i)
    /\ UNCHANGED <<input, isConnected, health, started, refreshLock, indexVars>>

RefreshResponse(i) ==
    /\ pending[i].kind = "refresh" /\ pending[i].origin = "ui"
    /\ pending[i].stage \in {"response", "page"}
    /\ RefreshSettle(i, pending[i].resp)

RefreshFetchRejects(i) ==
    /\ pending[i].kind = "refresh" /\ pending[i].origin = "ui"
    /\ pending[i].stage = "backend"
    /\ RefreshSettle(i, NetFail)

----------------------------------------------------------------------------
(* Another client of the same servers (a second tab, curl), which makes    *)
(* one request at a time.                                                  *)

ExternalBodies ==
    { MalformedBody, JsonBody(EmptyObj),
      JsonBody(Obj([message |-> Str(<<>>)])),
      JsonBody(Obj([message |-> Num(7)])),
      JsonBody(Obj([message |-> Str(<<"Show me all staging models">>),
                    history |-> Arr(<<"earlier turn">>)])) }

External == { i \in DOMAIN pending : pending[i].origin = "ext" }

ExternalChat(req) ==
    /\ External = {}
    /\ pending' = Append(pending, Exchange("chat", "ext", "route", req))
    /\ UNCHANGED <<messages, input, isLoading, isConnected, health, started,
                   refreshLock, indexVars>>

ExternalRefresh ==
    /\ External = {}
    /\ pending' = Append(pending,
           Exchange("refresh", "ext", "backend", JsonBody(EmptyObj)))
    /\ UNCHANGED <<messages, input, isLoading, isConnected, health, started,
                   refreshLock, indexVars>>

ExternalReceive(i) ==
    /\ pending[i].origin = "ext" /\ pending[i].stage = "response"
    /\ pending' = RemoveAt(pending, i)
    /\ UNCHANGED <<messages, input, isLoading, isConnected, health, started,
                   refreshLock, indexVars>>

----------------------------------------------------------------------------
(* The Index Manager (spec.md 3, 4.4, 4.5, 5).  An index is a set of       *)
(* chunks; a chunk is its id, (source path, offset), with its embedding.   *)
(* The project is given by the number of chunks the Chunker cuts each file *)
(* into, 0 for a file that is absent.                                      *)

\* the files of the project
Paths == {"models/customers.sql"}

\* chunks of the longest file
MaxChunks == 2

\* refreshes and builds in one behaviour
MaxRuns == 2

\* vectors the embedding service can answer with
Embeddings == {"v1", "v2"}

Chunk(id, emb) == [id |-> id, emb |-> emb]

Ids(index) == { c.id : c \in index }

\* Document Loader and Chunker: the chunk ids of the project as it is now
ChunkIds(proj) ==
    { <<p, k>> : p \in Paths, k \in 1..MaxChunks } \cap
    { id \in Paths \X (1..MaxChunks) : id[2] <= proj[id[1]] }

\* a refresh that embeds every chunk of the project again
ToEmbedAll(newIds, index) == newIds

\* refresh: only chunks with new ids are embedded
ToEmbed(newIds, index) == newIds \ Ids(index)

\* build: every chunk is embedded, into an index that starts empty
ToEmbedBuild(newIds, index) == newIds

\* a refresh that works on the published instance in place
StagingInPlace == published

\* the instance a refresh works on: a new one, never the published one
Staging == runs + 1

\* a failed refresh that leaves its half-built instance to the readers
AfterAbortPartial == refresh.target

\* what readers observe after a refresh or build failed: what they did before
AfterAbort == published

Idle == [state |-> "idle", mode |-> "none", target |-> 0, todo |-> {}]

NoQuery == [state |-> "idle", ref |-> 0, seen |-> {}, views |-> {}]

\* instances that something still refers to
Live(pub, rf, q) ==
    {pub} \cup (IF rf.state = "running" THEN {rf.target} ELSE {})
          \cup (IF q.state = "scanning" THEN {q.ref} ELSE {})

Collect(ar, live) == [k \in DOMAIN ar \cap live |-> ar[k]]

\* ar with instance k set to index
Put(ar, k, index) ==
    [j \in DOMAIN ar \cup {k} |-> IF j = k THEN index ELSE ar[j]]

\* the file system changes under the project root
ProjectChange(p, n) ==
    /\ project[p] # n
    /\ project' = [project EXCEPT ![p] = n]
    /\ dirty' = TRUE
    /\ UNCHANGED <<arena, published, persisted, refresh, last, query,
                   embedCalls, runs, uiVars>>

\* refresh(root_path) or build(root_path) starts: scan, chunk, diff
RefreshStart(mode) ==
    /\ refresh.state = "idle"
    /\ runs < MaxRuns
    /\ LET newIds == ChunkIds(project)
           base == IF mode = "build" THEN {} ELSE arena[published]
           todo == IF mode = "build" THEN ToEmbedBuild(newIds, base)
                                     ELSE ToEmbed(newIds, base)
           kept == { c \in base : c.id \in newIds \ todo }
           rf == [state |-> "running", mode |-> mode, target |-> Staging,
                  todo |-> todo]
       IN  /\ refresh' = rf
           /\ arena' = Collect(Put(arena, Staging, kept),
                               Live(published, rf, query))
           /\ last' = [outcome |-> "running",
                       before |-> arena[published],
                       stored |-> persisted,
                       clean |-> mode = "refresh" /\ last.outcome = "ok" /\ ~dirty]
    /\ dirty' = FALSE
    /\ embedCalls' = 0
    /\ runs' = runs + 1
    /\ UNCHANGED <<published, persisted, project, query, uiVars>>

\* one chunk is embedded and added to the instance under construction
RefreshEmbed(id, emb) ==
    /\ refresh.state = "running"
    /\ id \in refresh.todo
    /\ arena' = [arena EXCEPT ![refresh.target] = @ \cup {Chunk(id, emb)}]
    /\ refresh' = [refresh EXCEPT !.todo = @ \ {id}]
    /\ embedCalls' = embedCalls + 1
    /\ UNCHANGED <<published, persisted, project, dirty, last, query, runs,
                   uiVars>>

EmbedErrors == {"EmbeddingServiceUnavailableError", "EmbeddingDimensionError"}

\* an embed call fails: the refresh or build is abandoned
RefreshEmbedFail(error) ==
    /\ refresh.state = "running"
    /\ refresh.todo # {}
    /\ published' = AfterAbort
    /\ refresh' = Idle
    /\ arena' = Collect(arena, Live(published', refresh', query))
    /\ embedCalls' = embedCalls + 1
    /\ last' = [last EXCEPT !.outcome = error]
    /\ UNCHANGED <<persisted, project, dirty, query, runs, uiVars>>

\* every chunk is embedded: swap the pointer readers observe, then persist
RefreshCommit ==
    /\ refresh.state = "running"
    /\ refresh.todo = {}
    /\ published' = refresh.target
    /\ persisted' = arena[refresh.target]
    /\ refresh' = Idle
    /\ arena' = Collect(arena, Live(published', refresh', query))
    /\ query' = IF query.state = "scanning"
                THEN [query EXCEPT !.views = @ \cup {arena[refresh.target]}]
                ELSE query
    /\ last' = [last EXCEPT !.outcome = "ok"]
    /\ UNCHANGED <<project, dirty, embedCalls, runs, uiVars>>

\* Retriever: a query takes its reference to the index
QueryStart ==
    /\ query.state # "scanning"
    /\ query' = [state |-> "scanning", ref |-> published, seen |-> {},
                 views |-> {arena[published]}]
    /\ UNCHANGED <<arena, published, persisted, project, dirty, refresh, last,
                   embedCalls, runs, uiVars>>

\* Vector Index search, the linear scan: one more chunk is compared
QueryScan(c) ==
    /\ query.state = "scanning"
    /\ c \in arena[query.ref]
    /\ c.id \notin Ids(query.seen)
    /\ query' = [query EXCEPT !.seen = @ \cup {c}]
    /\ UNCHANGED <<arena, published, persisted, project, dirty, refresh, last,
                   embedCalls, runs, uiVars>>

\* the scan has met every chunk of the index the query refers to
QueryEnd ==
    /\ query.state = "scanning"
    /\ Ids(arena[query.ref]) \subseteq Ids(query.seen)
    /\ query' = [query EXCEPT !.state = "done"]
    /\ arena' = Collect(arena, Live(published, refresh, query'))
    /\ UNCHANGED <<published, persisted, project, dirty, refresh, last,
                   embedCalls, runs, uiVars>>

\* load() on a store that is missing: an empty index
InitIndex ==
    /\ arena = [k \in {0} |-> {}]
    /\ published = 0
    /\ persisted = {}
    /\ project = [p \in Paths |-> 0]
    /\ dirty = FALSE
    /\ refresh = Idle
    /\ last = [outcome |-> "none", before |-> {}, stored |-> {}, clean |-> FALSE]
    /\ query = NoQuery
    /\ embedCalls = 0
    /\ runs = 0

ProjectChanges == \E p \in Paths : \E n \in 0..MaxChunks : ProjectChange(p, n)
RefreshStarts == \E mode \in {"refresh", "build"} : RefreshStart(mode)
RefreshEmbeds ==
    \E id \in Paths \X (1..MaxChunks) : \E emb \in Embeddings : RefreshEmbed(id, emb)
RefreshEmbedFails == \E error \in EmbedErrors : RefreshEmbedFail(error)
QueryScans ==
    /\ query.state = "scanning"
    /\ \E c \in arena[query.ref] : QueryScan(c)

NextIndex ==
    \/ ProjectChanges
    \/ RefreshStarts
    \/ RefreshEmbeds
    \/ RefreshEmbedFails
    \/ RefreshCommit
    \/ QueryStart
    \/ QueryScans
    \/ QueryEnd

----------------------------------------------------------------------------

Init ==
    /\ messages = <<>>
    /\ input = <<>>
    /\ isLoading = FALSE
    /\ isConnected = FALSE
    /\ health = NoResult
    /\ pending = <<>>
    /\ started = 0
    /\ refreshLock = FALSE
    /\ InitIndex

RouteReceives == \E i \in DOMAIN pending : RouteReceive(i)
RouteReplies ==
    \E i \in DOMAIN pending : \E outcome \in ChatOutcomes : RouteReply(i, outcome)
BackendRefreshStarts == \E i \in DOMAIN pending : BackendRefreshStart(i)
BackendRefreshRejects == \E i \in DOMAIN pending : BackendRefreshReject(i)
BackendRefreshFinishes ==
    \E i \in DOMAIN pending :
        \E outcome \in RefreshOutcomes : BackendRefreshFinish(i, outcome)
PageReplies ==
    \E i \in DOMAIN pending : \E page \in ErrorPages : PageReply(i, page)
ChatResponses == \E i \in DOMAIN pending : ChatResponse(i)
ChatFetchFails == \E i \in DOMAIN pending : ChatFetchRejects(i)
RefreshResponses == \E i \in DOMAIN pending : RefreshResponse(i)
RefreshFetchFails == \E i \in DOMAIN pending : RefreshFetchRejects(i)
ExternalReceives == \E i \in DOMAIN pending : ExternalReceive(i)
HealthSettles == \E r \in HealthOutcomes : HealthSettle(r)
Types == \E text \in Inputs : Type(text)
ExternalChats == \E req \in ExternalBodies : ExternalChat(req)

Next ==
    \/ HealthSettles
    \/ Types
    \/ SendClick
    \/ handleKeyPress
    \/ RefreshClick
    \/ clearChat
    \/ ExternalRefresh
    \/ ExternalChats
    \/ RouteReceives
    \/ RouteReplies
    \/ BackendRefreshStarts
    \/ BackendRefreshRejects
    \/ BackendRefreshFinishes
    \/ PageReplies
    \/ ChatResponses
    \/ ChatFetchFails
    \/ RefreshResponses
    \/ RefreshFetchFails
    \/ ExternalReceives

Spec == Init /\ [][Next]_vars

SpecIndex == Init /\ [][NextIndex]_vars

\* the code after an await runs once the awaited fetch has settled
SpecLive ==
    Spec /\ WF_vars(ChatResponses) /\ WF_vars(RefreshResponses)


----------------------------------------------------------------------------
(* Properties.                                                             *)

UiExchanges(kind) ==
    { i \in DOMAIN pending :
        pending[i].origin = "ui" /\ pending[i].kind = kind }

RunningRefreshes ==
    { i \in DOMAIN pending :
        pending[i].kind = "refresh" /\ pending[i].stage = "running" }

RefreshInProgress ==
    Response(409, Obj([detail |-> Str(<<"RefreshInProgressError">>)]))

\* C1: at most one refresh runs in the backend at any time, the lock is
\* held exactly while one runs, a refresh that was rejected is not running,
\* and the component never has two POST /api/refresh outstanding.
C1_OneRefreshAtATime ==
    /\ Cardinality(RunningRefreshes) <= 1
    /\ refreshLock <=> RunningRefreshes # {}
    /\ \A i \in DOMAIN pending :
         pending[i].resp = RefreshInProgress => pending[i].stage = "response"
    /\ Cardinality(UiExchanges("refresh")) <= 1

\* the component's refresh was rejected while another client's refresh runs
C1_Witness ==
    \E i, j \in DOMAIN pending :
        /\ pending[i].origin = "ui" /\ pending[i].resp = RefreshInProgress
        /\ pending[j].origin = "ext" /\ pending[j].stage = "running"

\* C4: while a refresh of the component is in progress, a connected user
\* with a question in the textarea can issue it: Send is enabled and
\* sendMessage does not return early.
C4_QueryNotBlockedByRefresh ==
    (UiExchanges("refresh") # {} /\ isConnected /\ Trim(input) # <<>>)
        => (~SendDisabled /\ ~SendGuard)

\* the turns of the conversation so far
HasUserTurn(log) == \E k \in DOMAIN log : log[k].role = "user"

\* C5: a chat request the component sends after earlier turns of the
\* conversation carries those turns with the new message.
C5_HistorySent ==
    [][ \A i \in DOMAIN pending' :
          ( /\ i \notin DOMAIN pending
            /\ pending'[i].kind = "chat" /\ pending'[i].origin = "ui"
            /\ HasUserTurn(messages) )
          => pending'[i].req.body["history"] = Arr(messages) ]_vars

\* the backend answered non-ok, or could not be reached
ChatFailed(x) ==
    /\ x.kind = "chat" /\ x.stage = "response"
    /\ \/ x.outcome.st = "failed"
       \/ x.outcome.st = "response" /\ ~Ok(x.outcome)

IsChatError(m) ==
    /\ m.role = "assistant"
    /\ m.sources = Undef
    /\ m.content.t = "string"
    /\ Len(m.content.v) >= 1
    /\ m.content.v[1] = "Sorry, I encountered an error: "

\* the route's answer to a failed chat: an error, no answer, no sources
ErrorOnly(x) ==
    /\ ~Ok(x.resp)
    /\ x.resp.body["error"] # Undef
    /\ x.resp.body["response"] = Undef
    /\ x.resp.body["sources"] = Undef

\* C6: the route answers a failed chat with an error and neither a response
\* text nor sources, and the step in which the component takes that answer
\* appends exactly one message, an assistant error message without sources.
C6_NoPartialAnswer ==
    [][ /\ \A i \in DOMAIN pending' :
             ChatFailed(pending'[i]) => ErrorOnly(pending'[i])
        /\ \A i \in DOMAIN pending :
             ( /\ ChatFailed(pending[i]) /\ pending[i].origin = "ui"
               /\ pending' = RemoveAt(pending, i) )
             => /\ Len(messages') = Len(messages) + 1
                /\ SubSeq(messages', 1, Len(messages)) = messages
                /\ IsChatError(messages'[Len(messages')]) ]_vars

\* a failed chat has been answered by the route and shown by the component
C6_Witness ==
    /\ pending = <<>>
    /\ \E k \in DOMAIN messages :
         messages[k] = ChatReply(PostReply(Response(500, EmptyObj)))

\* the list the backend returned, the empty list when it returned none
BackendSources(outcome) ==
    IF outcome.body["sources"].t = "array"
    THEN outcome.body["sources"].v
    ELSE <<>>

NoDuplicates(list) ==
    \A a, b \in DOMAIN list : list[a] = list[b] => a = b

ChatAnswered(x) ==
    /\ x.kind = "chat" /\ x.stage = "response" /\ x.origin = "ui"
    /\ x.outcome.st = "response" /\ Ok(x.outcome) /\ x.outcome.json

\* C7: the assistant message appended for an answered chat has exactly the
\* sources the backend returned, in the same order and without duplicates,
\* and the empty list when the backend returned none.
C7_SourcesPreserved ==
    [][ \A i \in DOMAIN pending :
          (ChatAnswered(pending[i]) /\ pending' = RemoveAt(pending, i))
          => LET m == messages'[Len(messages')]
             IN  /\ Len(messages') = Len(messages) + 1
                 /\ m.role = "assistant"
                 /\ m.sources = Arr(BackendSources(pending[i].outcome))
                 /\ NoDuplicates(m.sources.v) ]_vars

\* an answer with two sources, cut down from three retrieved chunks
C7_Witness ==
    \E k \in DOMAIN messages :
        /\ messages[k].role = "assistant"
        /\ messages[k].sources =
             Arr(<<"models/customers.sql", "models/orders.sql">>)

CannotConnect ==
    Str(<<"Cannot connect to backend server. Please ensure the backend is running.">>)

\* C9: every chat request the route has answered has one JSON response:
\* 503 'Cannot connect to backend server' when the backend could not be
\* reached, the backend's status when it answered non-ok, and 'Internal
\* server error' with 500 only when the request body or the backend's ok
\* answer was not JSON.
C9_FailuresSurfaced ==
    \A i \in DOMAIN pending :
        LET x == pending[i]
        IN  (x.kind = "chat" /\ x.stage = "response") =>
              /\ x.resp.st = "response" /\ x.resp.json
              /\ x.outcome.st = "failed" =>
                   (x.resp.status = 503 /\ x.resp.body["error"] = CannotConnect)
              /\ (x.outcome.st = "response" /\ ~Ok(x.outcome)) =>
                   x.resp.status = x.outcome.status
              /\ x.resp.body["error"] = Str(<<"Internal server error">>) <=>
                   \/ ~x.req.json
                   \/ x.outcome.st = "response" /\ Ok(x.outcome) /\ ~x.outcome.json
              /\ x.resp.body["error"] = Str(<<"Internal server error">>) =>
                   x.resp.status = 500

\* the backend could not be reached and the route has answered 503
C9_Witness ==
    \E i \in DOMAIN pending :
        /\ pending[i].kind = "chat" /\ pending[i].stage = "response"
        /\ pending[i].outcome.st = "failed"
        /\ pending[i].resp.status = 503

Healthy(r) ==
    /\ r.st = "response" /\ Ok(r) /\ r.json
    /\ r.body["status"] = Str(<<"healthy">>)

\* C10: isConnected is false until the health check of the mount has
\* settled and from then on is true exactly if that check answered ok with
\* status 'healthy', whatever happens later.
C10_ConnectionDecidedOnMount ==
    isConnected <=> Healthy(health)

\* the check ended disconnected and a refresh has since run to its notice
C10_Witness ==
    /\ health # NoResult /\ ~Healthy(health) /\ Ok(health)
    /\ ~isConnected
    /\ messages # <<>> /\ pending = <<>>

\* C2: what a query has read is part of one index that was published while
\* it ran, and a finished query has read exactly such an index.
C2_OneSnapshot ==
    /\ query.state = "scanning" => \E v \in query.views : query.seen \subseteq v
    /\ query.state = "done" => query.seen \in query.views

\* a query ended during which a refresh replaced a non-empty index
C2_Witness ==
    /\ query.state = "done"
    /\ query.seen # {}
    /\ Cardinality(query.views) >= 2

\* C3: while a refresh or build runs, and after it has failed, the index
\* readers observe and the persisted index are what they were when it
\* started.
C3_FailsAtomically ==
    (last.outcome = "running" \/ last.outcome \in EmbedErrors) =>
        /\ arena[published] = last.before
        /\ persisted = last.stored

\* a refresh failed after it had embedded a chunk, over a non-empty index
C3_Witness ==
    /\ last.outcome \in EmbedErrors
    /\ embedCalls >= 2
    /\ last.before # {}

RefusedWithDetail(x) ==
    /\ x.kind = "chat" /\ x.origin = "ui" /\ x.stage = "response"
    /\ x.outcome.st = "response" /\ ~Ok(x.outcome) /\ x.outcome.json
    /\ x.outcome.body["detail"].t = "string"

\* C11: the error message the component appends for a chat the backend
\* refused with a detail contains that detail, and not the fallback
\* 'HTTP <status>'.
C11_DetailReachesUser ==
    [][ \A i \in DOMAIN pending :
          (RefusedWithDetail(pending[i]) /\ pending' = RemoveAt(pending, i))
          => LET shown == messages'[Len(messages')].content.v
                 detail == pending[i].outcome.body["detail"].v
             IN  /\ \A k \in DOMAIN detail : Includes(shown, detail[k])
                 /\ ~Includes(shown, "HTTP ") ]_vars

\* a message that is missing, empty or not a string
MessageUnusable(msg) ==
    msg.t = "undefined" \/ msg = Str(<<>>) \/ msg.t # "string"

BadRequest ==
    Response(400, Obj([error |-> Str(<<"Message is required and must be a string">>)]))

\* the route has dealt with the request of exchange x
RouteDone(x) == x.kind = "chat" /\ x.stage \in {"backend", "response"}

Outstanding == UiExchanges("chat") \cup UiExchanges("refresh")

\* C13: the component has at most one request to the backend outstanding,
\* chat or refresh, and isLoading is true exactly while it has one.
C13_OneOutstanding ==
    /\ Cardinality(Outstanding) <= 1
    /\ isLoading <=> Outstanding # {}

\* a second request of the component is outstanding after the first settled
C13_Witness ==
    /\ started = 2 /\ isLoading
    /\ \E i \in UiExchanges("chat") : pending[i].stage = "backend"
    /\ \E k \in DOMAIN messages :
         messages[k].role = "assistant" /\ ~Includes(messages[k].content.v, "(check) ")

\* the fetch of the component's request i has resolved
Settled(i) == pending[i].stage \in {"response", "page"}

\* C14: the step that ends a request of the component, whether its fetch
\* resolved ok, not ok, with a body that is not JSON, or was rejected, sets
\* isLoading to false and appends exactly one assistant message; and a
\* request whose fetch has resolved is ended.
C14_Completes ==
    /\ [][ \A i \in Outstanding :
             pending' = RemoveAt(pending, i) =>
               /\ isLoading' = FALSE
               /\ Len(messages') = Len(messages) + 1
               /\ SubSeq(messages', 1, Len(messages)) = messages
               /\ messages'[Len(messages')].role = "assistant" ]_vars
    /\ (\E i \in Outstanding : Settled(i)) ~> (Outstanding = {} /\ ~isLoading)

\* a send and a refresh have both completed, one on a page that is not JSON
\* and one on a fetch that was rejected
C14_Witness ==
    /\ started = 2 /\ pending = <<>> /\ ~isLoading
    /\ \E j, k \in DOMAIN messages :
         /\ messages[j] = ChatErrorMessage(JsonSyntaxError)
         /\ messages[k] = RefreshErrorMessage(BrowserFetchFailed)

\* a message that refreshIndex appends
IsRefreshNotice(m) ==
    /\ m.role = "assistant" /\ m.content.t = "string" /\ m.content.v # <<>>
    /\ m.content.v[1] \in {"(check) ", "(cross) Error refreshing index: "}

\* an assistant message that answers a chat, with a reply or an error
AnswersChat(m) == m.role = "assistant" /\ ~IsRefreshNotice(m)

\* C15 as stated: every assistant message that answers a chat has a user
\* message before it in the log.
C15_AnswerAfterQuestion ==
    \A k \in DOMAIN messages :
        AnswersChat(messages[k]) =>
            \E j \in 1..(k - 1) : messages[j].role = "user"

\* the user message of the chat request x
Question(x) == Message("user", x.req.body["message"], Undef)

\* C15 amended: a step leaves the log as it is, empties it (clearChat), or
\* appends one message to it; the step that starts a chat appends its user
\* message; and the step that ends a chat appends the answer directly after
\* that user message, or to the empty log when clearChat has emptied it in
\* between.
C15_AppendOnlyButClear ==
    [][ /\ \/ messages' = messages
           \/ messages' = <<>>
           \/ /\ Len(messages') = Len(messages) + 1
              /\ SubSeq(messages', 1, Len(messages)) = messages
        /\ UiExchanges("chat")' # {} =>
             \/ messages' = <<>>
             \/ \E i \in UiExchanges("chat")' :
                  messages'[Len(messages')] = Question(pending'[i])
        /\ \A i \in UiExchanges("chat") :
             pending' = RemoveAt(pending, i) =>
               /\ messages' = Append(messages, messages'[Len(messages')])
               /\ AnswersChat(messages'[Len(messages')])
               /\ messages = <<>> \/ messages[Len(messages)] = Question(pending[i])
        /\ (UiExchanges("chat") = {} /\ UiExchanges("chat")' # {}) =>
             \E i \in UiExchanges("chat")' :
                  messages' = Append(messages, Question(pending'[i])) ]_vars

\* two chats have been answered, each answer directly after its question
C15_Witness ==
    /\ Len(messages) = 4
    /\ messages[1].role = "user" /\ AnswersChat(messages[2])
    /\ messages[3].role = "user" /\ AnswersChat(messages[4])

\* C16: a step in which the component sends a POST /api/chat is taken with
\* isConnected true, so none is sent while isConnected is false.
C16_NoChatWhileDisconnected ==
    [][ Cardinality(UiExchanges("chat")') > Cardinality(UiExchanges("chat"))
          => isConnected /\ isConnected' ]_vars

\* the health check was rejected and the component, disconnected, has its
\* second refresh outstanding and no chat
C16_Witness ==
    /\ health = NetFail /\ ~isConnected
    /\ UiExchanges("refresh") # {}
    /\ UiExchanges("chat") = {}
    /\ started = 2

\* C17: the step that empties the log leaves input, isLoading, isConnected
\* and the requests in flight as they are; and a request of the component
\* that settles on an emptied log has its reply or error appended as the
\* only message.
C17_ClearOnlyEmptiesLog ==
    [][ /\ (messages # <<>> /\ messages' = <<>>) =>
              /\ input' = input
              /\ isLoading' = isLoading
              /\ isConnected' = isConnected
              /\ pending' = pending
        /\ \A i \in Outstanding :
              (messages = <<>> /\ pending' = RemoveAt(pending, i)) =>
                 /\ Len(messages') = 1
                 /\ messages'[1].role = "assistant"
                 /\ pending[i].kind = "chat" => AnswersChat(messages'[1])
                 /\ pending[i].kind = "refresh" => IsRefreshNotice(messages'[1]) ]_vars

\* the only chat sent was cleared from the log while outstanding, and its
\* answer is now the log's only message
C17_Witness ==
    /\ started = 1 /\ pending = <<>> /\ ~isLoading
    /\ Len(messages) = 1 /\ AnswersChat(messages[1])

=============================================================================
